---- MODULE Spec2Model ----
(***************************************************************************)
(* AutoCRUD-RBAC backend: the RBAC middleware (checkPermission), the       *)
(* dynamic CRUD routes over the Record table, the permission resolver      *)
(* (expandPermissions / hasPermission) and the model routes with their     *)
(* version ledger (saveVersionedModel).                                    *)
(***************************************************************************)
EXTENDS Integers, Sequences, FiniteSets, TLC

(***************************************************************************)
(* Bounds of the model.                                                    *)
(***************************************************************************)
MaxUser == 2
MaxRecords == 2
MaxSaves == 3
MaxLen == 2

Users == 1..MaxUser
RecordIds == 1..MaxRecords

Roles == {"Admin", "Manager", "Viewer"}
ModelNames == {"Employee", "Product"}
Permissions == {"create", "read", "update", "delete", "all"}
CrudPermissions == {"create", "read", "update", "delete"}

VARIABLES
    models,      \* MODELS_DIR: model name -> current model definition file
    records,     \* Record table: id -> [modelName, ownerId]
    nextId,      \* Record.id AUTOINCREMENT counter
    req,         \* the CRUD request being answered (NoReq when none)
    resp,        \* the response sent for req
    logged,      \* the entry req's handler pushed onto the audit log (NoEntry when none)
    versions,    \* VERSIONS_DIR: <<name, n>> -> content of <name>_v<n>.json
    modelCache,  \* modelCache Map of modelRoutes
    saves,       \* in-flight POST /api/models/save handlers, per worker
    assigned,    \* the <<name, version>> pairs returned by saveVersionedModel, in commit order
    rbacIn,      \* inputs of the permission resolver under SpecPerm
    rbacOut,     \* result of the permission resolver under SpecPerm
    expandOut,   \* result of expandPermissions on the role's grants under SpecPerm
    uiOut,       \* result of the UI's auth.hasPermission under SpecPerm
    zod,         \* major version of the zod library behind validationResult (0 when unused)
    candidate,   \* the value handed to validateModelDefinition under SpecValidate
    result,      \* what validateModelDefinition returned for candidate
    again,       \* what validateModelDefinition returned for result.data
    batch,       \* the array handed to validateModelDefinitions under SpecBatch
    batchResult, \* what validateModelDefinitions returned for batch
    rowData,     \* the Record row that concurrent PUT handlers work on under SpecPut
    puts         \* in-flight PUT /:modelName/:id handlers on that row, per request

crudVars == <<records, nextId, req, resp, logged>>
ledgerVars == <<versions, modelCache, saves, assigned>>
permVars == <<rbacIn, rbacOut, expandOut, uiOut>>
validVars == <<zod, candidate, result, again, batch, batchResult>>
putVars == <<rowData, puts>>
vars == <<models, records, nextId, req, resp, logged, versions, modelCache, saves, assigned, rbacIn, rbacOut,
          expandOut, uiOut,
          zod, candidate, result, again, batch, batchResult, rowData, puts>>

(***************************************************************************)
(* Permission resolver (models/schema).                                    *)
(***************************************************************************)
includes(arr, x) == \E i \in DOMAIN arr : arr[i] = x

filterNotAll(arr) == SelectSeq(arr, LAMBDA p : p # "all")

\* expandPermissions without the expansion of `all`.
expandPermissionsNoAll(permissions) == filterNotAll(permissions)

\* expandPermissions that expands only the array ['all'].
expandPermissionsOnlyAll(permissions) ==
    IF permissions = <<"all">>
    THEN <<"create", "read", "update", "delete">>
    ELSE filterNotAll(permissions)

expandPermissions(permissions) ==
    IF includes(permissions, "all")
    THEN <<"create", "read", "update", "delete">>
    ELSE filterNotAll(permissions)

\* rbac is [defined, rules]: defined = FALSE is the undefined rbac map.
hasPermission(rbac, role, permission) ==
    IF ~rbac.defined \/ role \notin DOMAIN rbac.rules
    THEN FALSE
    ELSE includes(expandPermissions(rbac.rules[role]), permission)

(***************************************************************************)
(* RBAC middleware helpers.                                                *)
(***************************************************************************)
DefaultRole_ADMIN == "Admin"

\* isAdmin comparing against a lower-case role name.
isAdminLowercase(role) == role = "admin"

isAdmin(role) == role = DefaultRole_ADMIN

\* mapMethodToPermission with DELETE mapped to update.
mapMethodToPermissionSwapped(method) ==
    CASE method = "POST" -> "create"
      [] method = "GET" -> "read"
      [] method = "PUT" -> "update"
      [] method = "PATCH" -> "update"
      [] method = "DELETE" -> "update"
      [] OTHER -> "null"

\* "null" is the function's null result.
mapMethodToPermission(method) ==
    CASE method = "POST" -> "create"
      [] method = "GET" -> "read"
      [] method = "PUT" -> "update"
      [] method = "PATCH" -> "update"
      [] method = "DELETE" -> "delete"
      [] OTHER -> "null"

(***************************************************************************)
(* Model store and model definitions.  A definition keeps the parts the    *)
(* middleware and the routes read: name, field names, ownerField ("" when  *)
(* the model declares none) and the rbac map.                              *)
(***************************************************************************)
NoRbac == [defined |-> FALSE, rules |-> <<>>]

RbacEmployee ==
    [defined |-> TRUE,
     rules |-> [Admin |-> <<"all">>,
                Manager |-> <<"create", "read", "update">>,
                Viewer |-> <<"read">>]]

RbacOpen ==
    [defined |-> TRUE,
     rules |-> [Admin |-> <<"read">>,
                Manager |-> <<"all">>]]

\* A candidate definition as submitted to POST /api/models/save.
ModelDef(name, ownerField, rbac) ==
    [name |-> name, fields |-> <<"id", "ownerId">>, ownerField |-> ownerField, rbac |-> rbac]

\* The content of a model file or of a version file: the definition with its
\* _version metadata.
WithVersion(model, version) ==
    [name |-> model.name, fields |-> model.fields, ownerField |-> model.ownerField,
     rbac |-> model.rbac, version |-> version]

\* The content of a model file on which readFile or JSON.parse throws.
Unparseable == [parseable |-> FALSE]

\* The definitions a model file may hold in the initial model store.
StoredDefs(name) ==
    IF name = "Employee"
    THEN {ModelDef(name, "ownerId", RbacEmployee), ModelDef(name, "ownerId", NoRbac),
          ModelDef(name, "", RbacOpen)}
    ELSE {ModelDef(name, "ownerId", RbacOpen)}

\* Model stores in which every model was saved once.
ModelStores ==
    UNION {[S -> {WithVersion(d, 1) : d \in UNION {StoredDefs(n) : n \in S}}] :
               S \in SUBSET ModelNames}

\* Employee.json may be absent or unparseable; Product.json is present.
InitialStores ==
    {st \in ModelStores : "Product" \in DOMAIN st /\ \A n \in DOMAIN st : st[n].name = n}
    \cup {[n \in ModelNames |->
              IF n = "Employee" THEN Unparseable
              ELSE WithVersion(ModelDef(n, "ownerId", RbacOpen), 1)]}

\* fs.readFile of <modelName>.json does not throw ENOENT.
modelStored(modelName) == modelName \in DOMAIN models

\* loadModelDefinition returns null on every error of readFile or JSON.parse:
\* the file is missing or its content does not parse.
modelFound(modelName) == modelStored(modelName) /\ models[modelName] # Unparseable

loadModelDefinition(modelName) == models[modelName]

(***************************************************************************)
(* Requests to the CRUD router and their responses.                        *)
(***************************************************************************)
NoOwner == 0

Actors ==
    {[auth |-> "valid", userId |-> u, role |-> ro] : u \in Users, ro \in Roles}
    \cup {[auth |-> a, userId |-> 0, role |-> ""] : a \in {"none", "invalid"}}

\* body.ownerId = NoOwner: the client did not submit the field.
MkReq(actor, route, method, modelName, id, ownerId) ==
    [auth |-> actor.auth, userId |-> actor.userId, role |-> actor.role,
     route |-> route, method |-> method, modelName |-> modelName, id |-> id,
     body |-> [ownerId |-> ownerId]]

NoReq == MkReq([auth |-> "none", userId |-> 0, role |-> ""], "", "", "", 0, NoOwner)

Reply(status, reason, required, role, model, handler, data) ==
    [status |-> status, reason |-> reason, required |-> required, role |-> role,
     model |-> model, handler |-> handler, data |-> data]

NoResp == Reply(0, "", "", "", "", FALSE, {})

\* res.status(...).json(...) of a middleware: the route handler is not run.
Denied(status, reason) == Reply(status, reason, "", "", "", FALSE, {})

\* res.json(...) of a route handler.
Handled(status, reason, data) == Reply(status, reason, "", "", "", TRUE, data)

(***************************************************************************)
(* Middleware chain: authenticate, then checkPermission().                 *)
(***************************************************************************)
\* authenticate that verifies nothing: any token sets req.user.
authenticateAnyToken(r) == r.auth # "none"

\* authenticate: TRUE when req.user is set and next() is called.
authenticate(r) == r.auth = "valid"

\* Outcome of checkPermission: next = TRUE when next() is called;
\* modelDefinition = TRUE when req.modelDefinition was set to the model.
MwNext(modelDefinition) ==
    [next |-> TRUE, modelDefinition |-> modelDefinition, reply |-> NoResp]

MwDeny(reply) == [next |-> FALSE, modelDefinition |-> FALSE, reply |-> reply]

\* checkPermission answering a missing model as a missing permission.
checkPermissionNoLookupReply(r) ==
    IF isAdmin(r.role)
    THEN MwNext(FALSE)
    ELSE IF ~modelFound(r.modelName)
    THEN MwDeny(Reply(403, "insufficient_permission", mapMethodToPermission(r.method),
                      r.role, r.modelName, FALSE, {}))
    ELSE LET model == loadModelDefinition(r.modelName)
             permission == mapMethodToPermission(r.method)
         IN  IF permission = "null"
             THEN MwDeny(Denied(400, "invalid_action"))
             ELSE IF ~hasPermission(model.rbac, r.role, permission)
             THEN MwDeny(Reply(403, "insufficient_permission", permission, r.role,
                               r.modelName, FALSE, {}))
             ELSE MwNext(permission \in {"update", "delete"} /\ model.ownerField # "")

\* checkPermission(): admin bypass, model lookup, verb mapping, permission
\* test; req.modelDefinition is set for update and delete on an owned model.
checkPermission(r) ==
    IF isAdmin(r.role)
    THEN MwNext(FALSE)
    ELSE IF ~modelFound(r.modelName)
    THEN MwDeny(Denied(404, "model_not_found"))
    ELSE LET model == loadModelDefinition(r.modelName)
             permission == mapMethodToPermission(r.method)
         IN  IF permission = "null"
             THEN MwDeny(Denied(400, "invalid_action"))
             ELSE IF ~hasPermission(model.rbac, r.role, permission)
             THEN MwDeny(Reply(403, "insufficient_permission", permission, r.role,
                               r.modelName, FALSE, {}))
             ELSE MwNext(permission \in {"update", "delete"} /\ model.ownerField # "")

\* model?.ownerField in a route handler ("" when req.modelDefinition is unset).
reqOwnerField(r, mw) ==
    IF mw.modelDefinition THEN loadModelDefinition(r.modelName).ownerField ELSE ""

(***************************************************************************)
(* Record table.                                                           *)
(***************************************************************************)
\* parseRecord: the row's id and the JSON data.
parseRecord(id) == [id |-> id, ownerId |-> records[id].ownerId]

\* findFirst without the modelName condition.
findFirstAnyModel(id, modelName) == id \in DOMAIN records

\* prisma.record.findFirst({ where: { id, modelName } })
findFirst(id, modelName) == id \in DOMAIN records /\ records[id].modelName = modelName

\* prisma.record.findMany({ where: { modelName } })
findMany(modelName) == {id \in DOMAIN records : records[id].modelName = modelName}

\* record[field] of a parsed record; NoOwner when the key is absent.
fieldOf(rec, field) ==
    CASE field = "ownerId" -> rec.ownerId
      [] field = "id" -> rec.id
      [] OTHER -> NoOwner

\* The ownership test skipped for records that carry no owner value.
notOwnerUnlessUnowned(r, mw, rec) ==
    /\ reqOwnerField(r, mw) # ""
    /\ r.role # "Admin"
    /\ fieldOf(rec, reqOwnerField(r, mw)) # NoOwner
    /\ fieldOf(rec, reqOwnerField(r, mw)) # r.userId

\* The ownership test shared by the single-record handlers:
\* if (model?.ownerField && req.user?.role !== 'Admin') { if (record[ownerField] !== userId) 403 }
notOwner(r, mw, rec) ==
    /\ reqOwnerField(r, mw) # ""
    /\ r.role # "Admin"
    /\ fieldOf(rec, reqOwnerField(r, mw)) # r.userId

\* logEntry of writeRecordAuditLog (recordId 0 is null).
LogEntry(action, r, recordId) ==
    [action |-> action, modelName |-> r.modelName, recordId |-> recordId, userId |-> r.userId]

NoEntry == [action |-> "", modelName |-> "", recordId |-> 0, userId |-> 0]

\* What a route handler leaves behind: the reply, the Record table and the
\* entry it pushed onto the audit log.
Outcome(reply, recs, nid, entry) ==
    [reply |-> reply, records |-> recs, nextId |-> nid, logged |-> entry]

\* A denial that is written to the audit log.
UntouchedButLogged(reply) ==
    Outcome(reply, records, nextId, [NoEntry EXCEPT !.action = "DENIED"])

\* A reply sent before any write to the Record table or the audit log.
Untouched(reply) == Outcome(reply, records, nextId, NoEntry)

\* A reply of a handler that only reads the Record table and logs the read.
Read(reply, entry) == Outcome(reply, records, nextId, entry)

\* router.get('/:modelName')
listHandler(r, mw) ==
    LET ownerField == reqOwnerField(r, mw)
        found == findMany(r.modelName)
    IN  IF ownerField # "" /\ r.role # "Admin"
        THEN Read(Handled(200, "ok",
                 {parseRecord(id) : id \in {i \in found :
                      fieldOf(parseRecord(i), ownerField) = r.userId}}),
                 LogEntry("READ", r, 0))
        ELSE Read(Handled(200, "ok", {parseRecord(id) : id \in found}),
                  LogEntry("READ", r, 0))

\* router.get('/:modelName/:id')
getHandler(r, mw) ==
    IF ~findFirst(r.id, r.modelName)
    THEN Untouched(Handled(404, "not_found", {}))
    ELSE IF notOwner(r, mw, parseRecord(r.id))
    THEN Untouched(Handled(403, "not_owner", {}))
    ELSE Untouched(Handled(200, "ok", {parseRecord(r.id)}))

\* router.post('/:modelName'): recordData = req.body, the owner overwritten
\* when model?.ownerField is set.
createHandler(r, mw) ==
    LET ownerField == reqOwnerField(r, mw)
        ownerId == IF ownerField = "ownerId" THEN r.userId ELSE r.body.ownerId
        row == [modelName |-> r.modelName, ownerId |-> ownerId]
    IN  Outcome(Handled(201, "ok", {[id |-> nextId, ownerId |-> ownerId]}),
                (nextId :> row) @@ records, nextId + 1, LogEntry("CREATE", r, nextId))

\* The update handler without the line that restores the owner after the merge.
updateHandlerMergeOnly(r, mw) ==
    IF ~findFirst(r.id, r.modelName)
    THEN Untouched(Handled(404, "not_found", {}))
    ELSE IF notOwner(r, mw, parseRecord(r.id))
    THEN Untouched(Handled(403, "not_owner", {}))
    ELSE LET record == parseRecord(r.id)
             merged == IF r.body.ownerId # NoOwner THEN r.body.ownerId ELSE record.ownerId
         IN  Outcome(Handled(200, "ok", {[id |-> r.id, ownerId |-> merged]}),
                     [records EXCEPT ![r.id].ownerId = merged], nextId,
                     LogEntry("UPDATE", r, r.id))

\* router.put('/:modelName/:id'): merge the body over the record, keep the
\* owner when model?.ownerField is set.
updateHandler(r, mw) ==
    IF ~findFirst(r.id, r.modelName)
    THEN Untouched(Handled(404, "not_found", {}))
    ELSE IF notOwner(r, mw, parseRecord(r.id))
    THEN Untouched(Handled(403, "not_owner", {}))
    ELSE LET record == parseRecord(r.id)
             merged == IF r.body.ownerId # NoOwner THEN r.body.ownerId ELSE record.ownerId
             ownerId == IF reqOwnerField(r, mw) = "ownerId" THEN record.ownerId ELSE merged
         IN  Outcome(Handled(200, "ok", {[id |-> r.id, ownerId |-> ownerId]}),
                     [records EXCEPT ![r.id].ownerId = ownerId], nextId,
                     LogEntry("UPDATE", r, r.id))

\* router.delete('/:modelName/:id')
deleteHandler(r, mw) ==
    IF ~findFirst(r.id, r.modelName)
    THEN Untouched(Handled(404, "not_found", {}))
    ELSE IF notOwner(r, mw, parseRecord(r.id))
    THEN Untouched(Handled(403, "not_owner", {}))
    ELSE Outcome(Handled(200, "ok", {parseRecord(r.id)}),
                 [i \in DOMAIN records \ {r.id} |-> records[i]], nextId,
                 LogEntry("DELETE", r, r.id))

\* The five routes of the CRUD router.
routeHandler(r, mw) ==
    CASE r.route = "list" -> listHandler(r, mw)
      [] r.route = "get" -> getHandler(r, mw)
      [] r.route = "create" -> createHandler(r, mw)
      [] r.route = "update" -> updateHandler(r, mw)
      [] r.route = "delete" -> deleteHandler(r, mw)

\* A chain that looks the record up before the middleware runs.
dispatchLookupFirst(r) ==
    IF r.route \in {"get", "update", "delete"} /\ ~findFirst(r.id, r.modelName)
    THEN Untouched(Handled(404, "not_found", {}))
    ELSE IF ~authenticate(r)
    THEN Untouched(Denied(401, "unauthenticated"))
    ELSE LET mw == checkPermission(r)
         IN  IF ~mw.next THEN Untouched(mw.reply) ELSE routeHandler(r, mw)

\* authenticate, checkPermission(), then the route handler.
dispatch(r) ==
    IF ~authenticate(r)
    THEN Untouched(Denied(401, "unauthenticated"))
    ELSE LET mw == checkPermission(r)
         IN  IF ~mw.next THEN Untouched(mw.reply) ELSE routeHandler(r, mw)

\* The route handler runs (and a create inserts a row).
reachesHandler(r) == authenticate(r) /\ checkPermission(r).next

(***************************************************************************)
(* Actions of the CRUD router: one per route.  A request is answered in    *)
(* one step; EndRequest drops the request and response objects.            *)
(***************************************************************************)
Serve(r) ==
    /\ req' = r
    /\ \E out \in {dispatch(r)} :
           /\ resp' = out.reply
           /\ records' = out.records
           /\ nextId' = out.nextId
           /\ logged' = out.logged
    /\ UNCHANGED <<models, ledgerVars, permVars, validVars, putVars>>

ListRecords ==
    /\ req = NoReq
    /\ \E a \in Actors, m \in ModelNames :
           Serve(MkReq(a, "list", "GET", m, 0, NoOwner))

GetRecord ==
    /\ req = NoReq
    /\ \E a \in Actors, m \in ModelNames, id \in RecordIds :
           Serve(MkReq(a, "get", "GET", m, id, NoOwner))

CreateRecord ==
    /\ req = NoReq
    /\ \E a \in Actors, m \in ModelNames, o \in Users \cup {NoOwner} :
           LET r == MkReq(a, "create", "POST", m, 0, o)
           IN  /\ reachesHandler(r) => nextId <= MaxRecords
               /\ Serve(r)

UpdateRecord ==
    /\ req = NoReq
    /\ \E a \in Actors, m \in ModelNames, id \in RecordIds, o \in Users \cup {NoOwner} :
           Serve(MkReq(a, "update", "PUT", m, id, o))

DeleteRecord ==
    /\ req = NoReq
    /\ \E a \in Actors, m \in ModelNames, id \in RecordIds :
           Serve(MkReq(a, "delete", "DELETE", m, id, NoOwner))

EndRequest ==
    /\ req # NoReq
    /\ req' = NoReq
    /\ resp' = NoResp
    /\ logged' = NoEntry
    /\ UNCHANGED <<models, records, nextId, ledgerVars, permVars, validVars, putVars>>

(***************************************************************************)
(* Permission resolver applied to drawn inputs.                            *)
(***************************************************************************)
\* Role names that may have an entry in a drawn rbac map.
EntryRoles == {"Manager", "Viewer"}

\* Permission arrays of length at most MaxLen.
GrantArrays == UNION {[1..k -> Permissions] : k \in 0..MaxLen}

RbacMaps ==
    {NoRbac} \cup
    {[defined |-> TRUE, rules |-> f] : f \in UNION {[S -> GrantArrays] : S \in SUBSET EntryRoles}}

NoQuery == [rbac |-> NoRbac, role |-> "", permission |-> ""]

NoAnswer == [done |-> FALSE, value |-> FALSE]

NoExpansion == [done |-> FALSE, value |-> <<>>]

\* None of the three functions was called on rbacIn yet.
NotResolved == ~rbacOut.done /\ ~expandOut.done /\ ~uiOut.done

\* One call hasPermission(rbac, role, permission).
ResolvePermission ==
    /\ NotResolved
    /\ rbacIn # NoQuery
    /\ rbacOut' = [done |-> TRUE,
                   value |-> hasPermission(rbacIn.rbac, rbacIn.role, rbacIn.permission)]
    /\ UNCHANGED <<models, crudVars, ledgerVars, rbacIn, expandOut, uiOut, validVars, putVars>>

\* One call expandPermissions(rbac[role]) on the grants of the role's entry.
ExpandPermissions ==
    /\ NotResolved
    /\ rbacIn.rbac.defined
    /\ rbacIn.role \in DOMAIN rbacIn.rbac.rules
    /\ expandOut' = [done |-> TRUE, value |-> expandPermissions(rbacIn.rbac.rules[rbacIn.role])]
    /\ UNCHANGED <<models, crudVars, ledgerVars, rbacIn, rbacOut, uiOut, validVars, putVars>>

\* The UI's auth.hasPermission(modelRBAC, permission) for currentUser;
\* role "" is no currentUser.
authHasPermission(role, modelRBAC, permission) ==
    IF role = "" THEN FALSE
    ELSE IF ~modelRBAC.defined THEN TRUE
    ELSE IF role \notin DOMAIN modelRBAC.rules THEN FALSE
    ELSE IF includes(modelRBAC.rules[role], "all") THEN TRUE
    ELSE includes(modelRBAC.rules[role], permission)

\* The server's permission step of checkPermission: Admin bypass, else
\* hasPermission on the model's rbac.
serverAllows(rbac, role, permission) ==
    isAdmin(role) \/ hasPermission(rbac, role, permission)

\* One call auth.hasPermission(model.rbac, permission) in the UI.
UiHasPermission ==
    /\ NotResolved
    /\ rbacIn # NoQuery
    /\ uiOut' = [done |-> TRUE,
                 value |-> authHasPermission(rbacIn.role, rbacIn.rbac, rbacIn.permission)]
    /\ UNCHANGED <<models, crudVars, ledgerVars, rbacIn, rbacOut, expandOut, validVars, putVars>>

IdlePerm ==
    /\ rbacIn = NoQuery
    /\ rbacOut = NoAnswer
    /\ expandOut = NoExpansion
    /\ uiOut = NoAnswer

(***************************************************************************)
(* Model routes and the version ledger (routes/modelRoutes).               *)
(***************************************************************************)
MaxInFlight == 2

Savers == 1..MaxInFlight

\* /^[A-Z][a-zA-Z0-9]*$/ on the names a candidate may carry.
isPascalCase(name) == name \in {"Employee", "Product"}

\* /^[a-zA-Z_][a-zA-Z0-9_]*$/ on the field names a candidate may carry.
isIdentifier(name) == name \in {"id", "ownerId", "name", "_x"}

\* validateModelDefinition: success of ModelDefinitionSchema.safeParse.
validateModelDefinition(m) ==
    /\ isPascalCase(m.name)
    /\ Len(m.fields) >= 1
    /\ \A i \in DOMAIN m.fields : isIdentifier(m.fields[i])
    /\ \A i, j \in DOMAIN m.fields : m.fields[i] = m.fields[j] => i = j
    /\ m.rbac.defined =>
           \A ro \in DOMAIN m.rbac.rules :
               /\ ro # ""
               /\ Len(m.rbac.rules[ro]) >= 1
               /\ \A i \in DOMAIN m.rbac.rules[ro] : m.rbac.rules[ro][i] \in Permissions
    /\ m.ownerField # "" => includes(m.fields, m.ownerField)

\* Bodies submitted to POST /api/models/save.
SaveCandidates ==
    {ModelDef(n, "ownerId", RbacEmployee) : n \in ModelNames}
    \cup {ModelDef(n, "", NoRbac) : n \in ModelNames}
    \cup {ModelDef("invalid_name", "", NoRbac), ModelDef("Employee", "salary", NoRbac)}

NoModel == ModelDef("", "", NoRbac)

IdleSave(status) ==
    [pc |-> "idle", model |-> NoModel, isUpdate |-> FALSE, nextVersion |-> 0, status |-> status]

\* readdir without the filter on the model name.
modelVersionsUnfiltered(name) == {k[2] : k \in DOMAIN versions}

\* The version numbers of the files <name>_v<n>.json found by readdir.
modelVersions(name) == {k[2] : k \in {f \in DOMAIN versions : f[1] = name}}

SetMax(S) == CHOOSE x \in S : \A y \in S : y <= x

\* saveVersionedModel up to its write: Math.max(...versions) + 1, or 1.
nextVersionOf(name) ==
    IF modelVersions(name) = {} THEN 1 ELSE SetMax(modelVersions(name)) + 1

\* fs.readFile of <name>_v<version>.json (GET /:name/versions/:version).
versionFound(name, version) == <<name, version>> \in DOMAIN versions

\* Saves that were given or are about to be given a version number.
SavesStarted ==
    Cardinality({p \in Savers : saves[p].pc \in {"readdir", "writeVersion"}})
    + Cardinality(DOMAIN assigned)

\* POST /save without the validation step.
StartSaveUnvalidated(p, m) ==
    /\ saves[p].pc = "idle"
    /\ SavesStarted < MaxSaves
    /\ saves' = [saves EXCEPT ![p] =
           [pc |-> "readdir", model |-> m, isUpdate |-> m.name \in DOMAIN models,
            nextVersion |-> 0, status |-> 0]]
    /\ UNCHANGED <<models, crudVars, versions, modelCache, assigned, permVars, validVars, putVars>>

\* POST /save, up to fs.access(filePath): validation, then isUpdate.
StartSave(p, m) ==
    /\ saves[p].pc = "idle"
    /\ IF ~validateModelDefinition(m)
       THEN saves' = [saves EXCEPT ![p] = IdleSave(400)]
       ELSE /\ SavesStarted < MaxSaves
            /\ saves' = [saves EXCEPT ![p] =
                   [pc |-> "readdir", model |-> m, isUpdate |-> m.name \in DOMAIN models,
                    nextVersion |-> 0, status |-> 0]]
    /\ UNCHANGED <<models, crudVars, versions, modelCache, assigned, permVars, validVars, putVars>>

\* saveVersionedModel: readdir of VERSIONS_DIR and the next version number.
ReadVersions(p) ==
    /\ saves[p].pc = "readdir"
    /\ saves' = [saves EXCEPT ![p].pc = "writeVersion",
                              ![p].nextVersion = nextVersionOf(saves[p].model.name)]
    /\ UNCHANGED <<models, crudVars, versions, modelCache, assigned, permVars, validVars, putVars>>

\* saveVersionedModel: writeFile of <name>_v<nextVersion>.json, return nextVersion.
WriteVersion(p) ==
    /\ saves[p].pc = "writeVersion"
    /\ LET m == saves[p].model
           v == saves[p].nextVersion
       IN  /\ versions' = (<<m.name, v>> :> WithVersion(m, v)) @@ versions
           /\ assigned' = Append(assigned, <<m.name, v>>)
    /\ saves' = [saves EXCEPT ![p].pc = "writeModel"]
    /\ UNCHANGED <<models, crudVars, modelCache, permVars, validVars, putVars>>

\* POST /save after saveVersionedModel: writeFile of <name>.json,
\* modelCache.set, response 200 or 201.
WriteModel(p) ==
    /\ saves[p].pc = "writeModel"
    /\ LET m == saves[p].model
           stored == WithVersion(m, saves[p].nextVersion)
       IN  /\ models' = (m.name :> stored) @@ models
           /\ modelCache' = (m.name :> stored) @@ modelCache
    /\ saves' = [saves EXCEPT ![p] = IdleSave(IF saves[p].isUpdate THEN 200 ELSE 201)]
    /\ UNCHANGED <<crudVars, versions, assigned, permVars, validVars, putVars>>

\* DELETE /api/models/:name: unlink of the model file.
DeleteModel(name) ==
    /\ name \in DOMAIN models
    /\ models' = [n \in DOMAIN models \ {name} |-> models[n]]
    /\ UNCHANGED <<crudVars, ledgerVars, permVars, validVars, putVars>>

\* POST /api/models/reload: clear the cache, then set every model file.
ReloadModels ==
    /\ modelCache' = [n \in DOMAIN models |-> models[n]]
    /\ modelCache' # modelCache
    /\ UNCHANGED <<models, crudVars, versions, saves, assigned, permVars, validVars, putVars>>

NoWorkerBusy == \A p \in Savers : saves[p].pc = "idle"

\* The ledger left by saving every model of a store once.
LedgerOf(store) == [k \in {<<n, 1>> : n \in DOMAIN store} |-> store[k[1]]]

IdleLedger ==
    /\ versions = LedgerOf(models)
    /\ modelCache = models
    /\ saves = [p \in Savers |-> IdleSave(0)]
    /\ assigned = <<>>

(***************************************************************************)
(* Model definition validator (models/schema): ModelDefinitionSchema and   *)
(* validateModelDefinition on candidates with typed fields.  An optional   *)
(* property is a set: {} when the key is omitted, {v} when it is given.    *)
(***************************************************************************)
MaxFields == 2

\* The source tree pins no zod version; .default(d).optional() differs between
\* the two majors.
ZodMajors == {3, 4}

the(opt) == CHOOSE v \in opt : TRUE

FieldTypeSchema == {"string", "number", "boolean", "date", "json", "relation"}

RelationConfig == [model |-> "Product", type |-> "one-to-one"]

\* Field names a candidate may carry: two identifiers and a non-identifier.
FieldNames == {"id", "ownerId", "1x"}

\* type and relation of a drawn field: a plain string field, a type outside
\* the enum, a relation without its config, a relation with its config.
FieldKinds ==
    {[type |-> "string", relation |-> {}],
     [type |-> "text", relation |-> {}],
     [type |-> "relation", relation |-> {}],
     [type |-> "relation", relation |-> {RelationConfig}]}

\* required and unique of a drawn field: given on ownerId, omitted elsewhere.
FieldFlags(name) ==
    IF name = "ownerId"
    THEN [required |-> {TRUE}, unique |-> {FALSE}]
    ELSE [required |-> {}, unique |-> {}]

FieldInputs ==
    {[name |-> n, type |-> k.type, required |-> FieldFlags(n).required,
      unique |-> FieldFlags(n).unique, relation |-> k.relation] :
         n \in FieldNames, k \in FieldKinds}

FieldArrays == UNION {[1..k -> FieldInputs] : k \in 0..MaxFields}

\* timestamps and the _version key of a stored file: both omitted, or both given.
ModelExtras ==
    {[timestamps |-> {}, version |-> {}],
     [timestamps |-> {FALSE}, version |-> {1}]}

RbacInputs ==
    {NoRbac,
     [defined |-> TRUE, rules |-> [Viewer |-> <<"read">>]],
     [defined |-> TRUE, rules |-> [Viewer |-> <<>>]]}

\* The values handed to validateModelDefinition.
Candidates ==
    {[name |-> n, fields |-> fs, ownerField |-> o, rbac |-> rb,
      timestamps |-> e.timestamps, version |-> e.version] :
         n \in {"Employee", "invalid_name"}, fs \in FieldArrays,
         o \in {{}, {""}, {"ownerId"}, {"salary"}}, rb \in RbacInputs, e \in ModelExtras}

\* One entry of result.errors: err.path.map(String) and err.message.
Issue(path, message) == [path |-> path, message |-> message]

\* String(index) of the i-th array element.
Idx(i) == ToString(i - 1)

\* .default(d).optional() that negates a given value.
parseDefaultToggle(value, d, zodMajor) ==
    IF value = {} THEN {d} ELSE {~the(value)}

\* z.boolean().default(d).optional() on a key: a given value is kept; for an
\* omitted key zod 3 returns undefined and zod 4 applies the default.
parseDefaultOptional(value, d, zodMajor) ==
    IF value # {} THEN value
    ELSE IF zodMajor = 3 THEN {} ELSE {d}

\* FieldTypeSchema rejects the value: an invalid enum value aborts the parse
\* of the field object, so its .refine is not run.
fieldAborted(f) == f.type \notin FieldTypeSchema

\* FieldDefinitionSchema's refinement fails.
relationMismatch(f) ==
    \/ f.type = "relation" /\ f.relation = {}
    \/ f.type # "relation" /\ f.relation # {}

\* Issues of FieldDefinitionSchema on fields[i].
fieldIssues(f, i) ==
    (IF f.name = ""
     THEN {Issue(<<"fields", Idx(i), "name">>, "Field name is required")} ELSE {})
    \cup (IF ~isIdentifier(f.name)
          THEN {Issue(<<"fields", Idx(i), "name">>, "Field name must be a valid identifier")}
          ELSE {})
    \cup (IF fieldAborted(f)
          THEN {Issue(<<"fields", Idx(i), "type">>, "Invalid enum value")} ELSE {})
    \cup (IF ~fieldAborted(f) /\ relationMismatch(f)
          THEN {Issue(<<"fields", Idx(i)>>,
                      "Relation type fields must have relation config, and vice versa")}
          ELSE {})

\* The parsed field: known keys, defaults as the zod major applies them.
fieldData(f, zodMajor) ==
    [name |-> f.name, type |-> f.type,
     required |-> parseDefaultOptional(f.required, FALSE, zodMajor),
     unique |-> parseDefaultOptional(f.unique, FALSE, zodMajor),
     relation |-> f.relation]

\* An element aborted, so the array's .refine is not run.
fieldsAborted(fs) == \E i \in DOMAIN fs : fieldAborted(fs[i])

duplicateNames(fs) == \E i, j \in DOMAIN fs : i # j /\ fs[i].name = fs[j].name

\* Issues of the fields array: its elements, .min(1), the uniqueness .refine.
fieldsIssues(fs) ==
    UNION {fieldIssues(fs[i], i) : i \in DOMAIN fs}
    \cup (IF Len(fs) < 1 THEN {Issue(<<"fields">>, "At least one field is required")} ELSE {})
    \cup (IF ~fieldsAborted(fs) /\ duplicateNames(fs)
          THEN {Issue(<<"fields">>, "Field names must be unique")} ELSE {})

\* A permission outside PermissionSchema aborts the parse of the rbac record.
rbacAborted(rbac) ==
    /\ rbac.defined
    /\ \E ro \in DOMAIN rbac.rules :
           \E i \in DOMAIN rbac.rules[ro] : rbac.rules[ro][i] \notin Permissions

\* Issues of RBACRulesSchema.
rbacIssues(rbac) ==
    IF ~rbac.defined THEN {}
    ELSE {Issue(<<"rbac", ro>>, "Role name is required") :
              ro \in {r \in DOMAIN rbac.rules : r = ""}}
         \cup {Issue(<<"rbac", ro>>, "At least one permission is required") :
                   ro \in {r \in DOMAIN rbac.rules : Len(rbac.rules[r]) < 1}}
         \cup UNION {{Issue(<<"rbac", ro, Idx(i)>>, "Invalid enum value") :
                          i \in {j \in DOMAIN rbac.rules[ro] :
                                     rbac.rules[ro][j] \notin Permissions}} :
                         ro \in DOMAIN rbac.rules}

\* A name schema that accepts every string.
nameIssuesNone(name) == {}

\* Issues of ModelDefinitionSchema's name.
nameIssues(name) ==
    (IF name = "" THEN {Issue(<<"name">>, "Model name is required")} ELSE {})
    \cup (IF ~isPascalCase(name)
          THEN {Issue(<<"name">>, "Model name must be PascalCase")} ELSE {})

\* A property aborted, so the object's .refine is not run.
objectAborted(x) == fieldsAborted(x.fields) \/ rbacAborted(x.rbac)

\* ModelDefinitionSchema's refinement fails: if (data.ownerField) tests a
\* given, non-empty string.
ownerFieldMissing(x) ==
    /\ x.ownerField # {}
    /\ the(x.ownerField) # ""
    /\ ~\E i \in DOMAIN x.fields : x.fields[i].name = the(x.ownerField)

\* result.error.issues of ModelDefinitionSchema.safeParse(x).
safeParseIssues(x) ==
    nameIssues(x.name)
    \cup fieldsIssues(x.fields)
    \cup rbacIssues(x.rbac)
    \cup (IF ~objectAborted(x) /\ ownerFieldMissing(x)
          THEN {Issue(<<>>, "ownerField must reference an existing field")} ELSE {})

\* result.data of a successful safeParse: unknown keys are stripped.
parsedData(x, zodMajor) ==
    [name |-> x.name,
     fields |-> [i \in DOMAIN x.fields |-> fieldData(x.fields[i], zodMajor)],
     ownerField |-> x.ownerField,
     rbac |-> x.rbac,
     timestamps |-> parseDefaultOptional(x.timestamps, TRUE, zodMajor),
     version |-> {}]

NoData ==
    [name |-> "", fields |-> <<>>, ownerField |-> {}, rbac |-> NoRbac,
     timestamps |-> {}, version |-> {}]

NoResult == [done |-> FALSE, success |-> FALSE, data |-> NoData, errors |-> {}]

\* The ValidationResult returned by validateModelDefinition(x).
validationResult(x, zodMajor) ==
    IF safeParseIssues(x) = {}
    THEN [done |-> TRUE, success |-> TRUE, data |-> parsedData(x, zodMajor), errors |-> {}]
    ELSE [done |-> TRUE, success |-> FALSE, data |-> NoData, errors |-> safeParseIssues(x)]

\* validateModelDefinition(candidate).
Validate ==
    /\ candidate # NoData
    /\ ~result.done
    /\ result' = validationResult(candidate, zod)
    /\ UNCHANGED <<models, crudVars, ledgerVars, permVars, zod, candidate, again,
                   batch, batchResult, putVars>>

\* validateModelDefinition on the data of an accepted candidate (GET /:name
\* validates the stored definition again).
Revalidate ==
    /\ result.done
    /\ result.success
    /\ ~again.done
    /\ again' = validationResult(result.data, zod)
    /\ UNCHANGED <<models, crudVars, ledgerVars, permVars, zod, candidate, result,
                   batch, batchResult, putVars>>

\* POST /save after its validateModelDefinition call returned result, with no
\* other request in flight: 400 on failure; otherwise saveVersionedModel, the
\* model file, modelCache.set and 200 or 201.
SaveValidated ==
    /\ result.done
    /\ saves[1] = IdleSave(0)
    /\ IF ~result.success
       THEN /\ saves' = [saves EXCEPT ![1] = IdleSave(400)]
            /\ UNCHANGED <<models, versions, modelCache, assigned>>
       ELSE LET model == result.data
                version == nextVersionOf(model.name)
                modelWithMetadata == [model EXCEPT !.version = {version}]
            IN  /\ versions' = (<<model.name, version>> :> modelWithMetadata) @@ versions
                /\ assigned' = Append(assigned, <<model.name, version>>)
                /\ models' = (model.name :> modelWithMetadata) @@ models
                /\ modelCache' = (model.name :> modelWithMetadata) @@ modelCache
                /\ saves' = [saves EXCEPT ![1] =
                       IdleSave(IF model.name \in DOMAIN models THEN 200 ELSE 201)]
    /\ UNCHANGED <<crudVars, permVars, validVars, putVars>>

(***************************************************************************)
(* Multi-model validation (validateModelDefinitions).                      *)
(***************************************************************************)
MaxBatch == 2

\* Names a relation of a drawn model may point at; Task is never in a batch.
RelationTargets == {"Employee", "Product", "Task"}

PlainField(name) ==
    [name |-> name, type |-> "string", required |-> {}, unique |-> {}, relation |-> {}]

RelationField(name, target) ==
    [name |-> name, type |-> "relation", required |-> {}, unique |-> {},
     relation |-> {[model |-> target, type |-> "one-to-one"]}]

\* Field arrays of a drawn model: an id, then no, one or two relation fields.
BatchFields ==
    {<<PlainField("id")>>}
    \cup {<<PlainField("id"), RelationField("ownerId", t)>> : t \in RelationTargets}
    \cup {<<PlainField("id"), RelationField("ownerId", t), RelationField("name", u)>> :
              t \in RelationTargets, u \in RelationTargets}

BatchModel(name, fields) ==
    [name |-> name, fields |-> fields, ownerField |-> {}, rbac |-> NoRbac,
     timestamps |-> {}, version |-> {}]

\* The models a batch is drawn from: valid ones and one with a snake_case name.
BatchModels ==
    {BatchModel(n, fs) : n \in ModelNames, fs \in BatchFields}
    \cup {BatchModel("invalid_name", <<PlainField("id")>>)}

Batches == UNION {[1..k -> BatchModels] : k \in 0..MaxBatch}

\* `models[${i}]` for the i-th element.
ModelTag(i) == "models[" \o ToString(i - 1) \o "]"

\* First pass: the errors of each model, prefixed with models[i].
individualErrors(models_, zodMajor) ==
    UNION {{Issue(<<ModelTag(i)>> \o e.path, e.message) :
                e \in validationResult(models_[i], zodMajor).errors} :
               i \in DOMAIN models_}

\* Second pass that stops at the first model with an unknown relation target.
relationErrorsFirstModel(validatedModels) ==
    LET modelNames == {validatedModels[i].name : i \in DOMAIN validatedModels}
        broken(i) == {f \in {validatedModels[i].fields[k] : k \in DOMAIN validatedModels[i].fields} :
                         f.type = "relation" /\ f.relation # {}
                         /\ the(f.relation).model \notin modelNames}
        bad == {i \in DOMAIN validatedModels : broken(i) # {}}
    IN  IF bad = {} THEN {}
        ELSE LET i == CHOOSE j \in bad : \A k \in bad : j <= k
             IN  {Issue(<<ModelTag(i), "fields", f.name, "relation", "model">>,
                        "Relation references unknown model: " \o the(f.relation).model) :
                      f \in broken(i)}

\* Second pass: one error for each relation field whose target is not the
\* name of a model of the batch.
relationErrors(validatedModels) ==
    LET modelNames == {validatedModels[i].name : i \in DOMAIN validatedModels}
    IN  UNION {{Issue(<<ModelTag(i), "fields", f.name, "relation", "model">>,
                      "Relation references unknown model: " \o the(f.relation).model) :
                    f \in {g \in {validatedModels[i].fields[k] :
                                     k \in DOMAIN validatedModels[i].fields} :
                              /\ g.type = "relation"
                              /\ g.relation # {}
                              /\ the(g.relation).model \notin modelNames}} :
                   i \in DOMAIN validatedModels}

NoBatchResult == [done |-> FALSE, success |-> FALSE, data |-> <<>>, errors |-> {}]

\* The ValidationResult returned by validateModelDefinitions(models).
validateModelDefinitions(models_, zodMajor) ==
    LET validatedModels == [i \in DOMAIN models_ |-> validationResult(models_[i], zodMajor).data]
    IN  IF individualErrors(models_, zodMajor) # {}
        THEN [done |-> TRUE, success |-> FALSE, data |-> <<>>,
              errors |-> individualErrors(models_, zodMajor)]
        ELSE IF relationErrors(validatedModels) # {}
        THEN [done |-> TRUE, success |-> FALSE, data |-> <<>>,
              errors |-> relationErrors(validatedModels)]
        ELSE [done |-> TRUE, success |-> TRUE, data |-> validatedModels, errors |-> {}]

\* validateModelDefinitions(batch).
ValidateBatch ==
    /\ zod \in ZodMajors
    /\ ~batchResult.done
    /\ batchResult' = validateModelDefinitions(batch, zod)
    /\ UNCHANGED <<models, crudVars, ledgerVars, permVars, zod, candidate, result, again, batch, putVars>>

\* The validator is not called: no candidate, and no zod major in play.
IdleValidate ==
    /\ zod = 0
    /\ candidate = NoData
    /\ result = NoResult
    /\ again = NoResult
    /\ batch = <<>>
    /\ batchResult = NoBatchResult

(***************************************************************************)
(* Specifications.                                                         *)
(***************************************************************************)
(***************************************************************************)
(* PUT /:modelName/:id handlers in flight together on one record.          *)
(***************************************************************************)
MaxPut == 2
MaxValue == 2

Putters == 1..MaxPut
Values == 1..MaxValue

\* The keys of the record's data besides the owner field.
DataFields == {"name", "salary"}

\* req.body of an update: some of the data fields with new values.
UpdateBodies == UNION {[D -> Values] : D \in SUBSET DataFields \ {{}}}

NoBody == [f \in {} |-> 0]

\* parseRecord(dbRecord) of the row: the JSON of its data column.
RowRecord(owner, name, salary) == [ownerId |-> owner, name |-> name, salary |-> salary]

NoRow == [exists |-> FALSE, data |-> RowRecord(NoOwner, 0, 0)]

IdlePut ==
    [pc |-> "idle", userId |-> NoOwner, admin |-> FALSE, body |-> NoBody,
     record |-> NoRow.data, status |-> 0]

DonePut(put, status) == [put EXCEPT !.pc = "done", !.status = status]

\* { ...record, ...updateData }
mergeBody(record, updateData) ==
    [f \in DOMAIN record |-> IF f \in DOMAIN updateData THEN updateData[f] ELSE record[f]]

\* updatedData of the PUT handler: the body merged over the record the
\* handler read, the owner restored when req.modelDefinition has an ownerField
\* (it is attached for non-admin actors only).
updatedData(put) ==
    LET merged == mergeBody(put.record, put.body)
    IN  IF ~put.admin THEN [merged EXCEPT !.ownerId = put.record.ownerId] ELSE merged

\* PUT handler up to its first await: prisma.record.findFirst, 404, the
\* ownership check of a non-admin actor on a model with an ownerField, 403.
FindRecord(p, userId, admin, body) ==
    /\ puts[p] = IdlePut
    /\ LET put == [IdlePut EXCEPT !.userId = userId, !.admin = admin, !.body = body]
       IN  puts' = [puts EXCEPT ![p] =
               IF ~rowData.exists
               THEN DonePut(put, 404)
               ELSE IF ~admin /\ rowData.data.ownerId # userId
               THEN DonePut(put, 403)
               ELSE [put EXCEPT !.pc = "found", !.record = rowData.data]]
    /\ UNCHANGED <<models, crudVars, ledgerVars, permVars, validVars, rowData>>

\* PUT handler from prisma.record.update on: the whole data column is
\* overwritten with JSON.stringify(dataToStore); a missing row makes update
\* throw, and the catch block answers 500.
UpdateRow(p) ==
    /\ puts[p].pc = "found"
    /\ IF ~rowData.exists
       THEN /\ puts' = [puts EXCEPT ![p] = DonePut(puts[p], 500)]
            /\ UNCHANGED rowData
       ELSE /\ rowData' = [rowData EXCEPT !.data = updatedData(puts[p])]
            /\ puts' = [puts EXCEPT ![p] = DonePut(puts[p], 200)]
    /\ UNCHANGED <<models, crudVars, ledgerVars, permVars, validVars>>

\* DELETE /:modelName/:id by an administrator: prisma.record.delete of the row.
RemoveRow ==
    /\ rowData.exists
    /\ rowData' = NoRow
    /\ UNCHANGED <<models, crudVars, ledgerVars, permVars, validVars, puts>>

IdlePuts ==
    /\ rowData = NoRow
    /\ puts = [p \in Putters |-> IdlePut]

EmptyTable == [i \in {} |-> [modelName |-> "", ownerId |-> NoOwner]]

IdleCrud ==
    /\ records = EmptyTable
    /\ nextId = 1
    /\ req = NoReq
    /\ resp = NoResp
    /\ logged = NoEntry

\* The CRUD router over a model store that holds the saved definitions.
Init ==
    /\ models \in InitialStores
    /\ IdleCrud
    /\ IdleLedger
    /\ IdlePerm
    /\ IdleValidate
    /\ IdlePuts

Next ==
    \/ ListRecords
    \/ GetRecord
    \/ CreateRecord
    \/ UpdateRecord
    \/ DeleteRecord
    \/ EndRequest

Spec == Init /\ [][Next]_vars

\* The model routes from empty models and versions directories; save
\* handlers interleave at their awaits.
InitLedger ==
    /\ models = <<>>
    /\ IdleCrud
    /\ IdleLedger
    /\ IdlePerm
    /\ IdleValidate
    /\ IdlePuts

NextLedger ==
    \/ \E p \in Savers, m \in SaveCandidates : StartSave(p, m)
    \/ \E p \in Savers : ReadVersions(p)
    \/ \E p \in Savers : WriteVersion(p)
    \/ \E p \in Savers : WriteModel(p)
    \/ \E n \in ModelNames : DeleteModel(n)
    \/ ReloadModels

SpecLedger == InitLedger /\ [][NextLedger]_vars

\* The same routes when each save request completes before the next begins.
NextSeq ==
    \/ \E p \in Savers, m \in SaveCandidates : NoWorkerBusy /\ StartSave(p, m)
    \/ \E p \in Savers : ReadVersions(p)
    \/ \E p \in Savers : WriteVersion(p)
    \/ \E p \in Savers : WriteModel(p)
    \/ \E n \in ModelNames : DeleteModel(n)
    \/ ReloadModels

SpecSeq == InitLedger /\ [][NextSeq]_vars

\* The permission resolver on every drawn rbac map, role and permission.
InitPerm ==
    /\ models = <<>>
    /\ IdleCrud
    /\ IdleLedger
    /\ rbacIn \in [rbac : RbacMaps, role : Roles, permission : Permissions]
    /\ rbacOut = NoAnswer
    /\ expandOut = NoExpansion
    /\ uiOut = NoAnswer
    /\ IdleValidate
    /\ IdlePuts

NextPerm ==
    \/ ResolvePermission
    \/ ExpandPermissions
    \/ UiHasPermission

SpecPerm == InitPerm /\ [][NextPerm]_vars

\* validateModelDefinition on every drawn candidate, then on its own result.
InitValidate ==
    /\ models = <<>>
    /\ IdleCrud
    /\ IdleLedger
    /\ IdlePerm
    /\ zod \in ZodMajors
    /\ candidate \in Candidates
    /\ result = NoResult
    /\ again = NoResult
    /\ batch = <<>>
    /\ batchResult = NoBatchResult
    /\ IdlePuts

NextValidate ==
    \/ Validate
    \/ Revalidate
    \/ SaveValidated

SpecValidate == InitValidate /\ [][NextValidate]_vars

\* validateModelDefinitions on every drawn batch.
InitBatch ==
    /\ models = <<>>
    /\ IdleCrud
    /\ IdleLedger
    /\ IdlePerm
    /\ zod \in ZodMajors
    /\ candidate = NoData
    /\ result = NoResult
    /\ again = NoResult
    /\ batch \in Batches
    /\ batchResult = NoBatchResult
    /\ IdlePuts

NextBatch == ValidateBatch

SpecBatch == InitBatch /\ [][NextBatch]_vars

\* Update requests on one stored record, their awaits interleaved, next to
\* an administrator's delete of the record.
InitPut ==
    /\ models = <<>>
    /\ IdleCrud
    /\ IdleLedger
    /\ IdlePerm
    /\ IdleValidate
    /\ rowData \in {[exists |-> TRUE, data |-> RowRecord(o, 0, 0)] : o \in Users}
    /\ puts = [p \in Putters |-> IdlePut]

NextPut ==
    \/ \E p \in Putters, u \in Users, a \in BOOLEAN, b \in UpdateBodies : FindRecord(p, u, a, b)
    \/ \E p \in Putters : UpdateRow(p)
    \/ RemoveRow

SpecPut == InitPut /\ [][NextPut]_vars

(***************************************************************************)
(* Properties of the CRUD router.                                          *)
(***************************************************************************)
\* A grant read off the rbac map directly: the role has an entry and the
\* entry lists the permission or `all`.
Granted(rbac, role, permission) ==
    /\ rbac.defined
    /\ role \in DOMAIN rbac.rules
    /\ \E i \in DOMAIN rbac.rules[role] : rbac.rules[role][i] \in {permission, "all"}

\* The permission each route's verb stands for.
RoutePermission(route) ==
    CASE route = "create" -> "create"
      [] route \in {"list", "get"} -> "read"
      [] route = "update" -> "update"
      [] route = "delete" -> "delete"
      [] OTHER -> "none"

\* The request r comes from an authenticated non-admin actor whose role holds
\* the route's permission on a stored model that declares an ownerField.
OwnedModelRequest(r) ==
    /\ r.auth = "valid"
    /\ r.role # "Admin"
    /\ modelFound(r.modelName)
    /\ models[r.modelName].ownerField = "ownerId"
    /\ Granted(models[r.modelName].rbac, r.role, RoutePermission(r.route))

\* C1: on a model that declares an ownerField, a record created by a non-admin
\* actor holding `create` is stored with ownerField equal to the actor's userId,
\* whatever the client submitted.
C1_CreateForcesOwner ==
    (req.route = "create" /\ OwnedModelRequest(req) /\ resp.status = 201)
        => \A d \in resp.data :
               /\ d.id \in DOMAIN records
               /\ records[d.id].ownerId = req.userId

\* C2: on a model that declares an ownerField, a collection read by a non-admin
\* actor holding `read` returns exactly the stored records of the model owned
\* by the actor.
C2_ListOnlyOwn ==
    (req.route = "list" /\ OwnedModelRequest(req))
        => resp.data = {parseRecord(i) : i \in {j \in findMany(req.modelName) :
                                                  records[j].ownerId = req.userId}}

\* C3: on a model that declares an ownerField, an update or delete of an existing
\* record by a non-admin actor holding the permission succeeds iff the record's
\* current owner is the actor; otherwise the outcome is not_owner (403) and the
\* Record table is unchanged.
C3_OwnerGate ==
    [][(req'.route \in {"update", "delete"} /\ OwnedModelRequest(req')
        /\ findFirst(req'.id, req'.modelName))
        => /\ (resp'.status = 200) <=> (records[req'.id].ownerId = req'.userId)
           /\ records[req'.id].ownerId # req'.userId
                  => /\ resp'.status = 403
                     /\ resp'.reason = "not_owner"
                     /\ records' = records
           /\ (req'.route = "delete" /\ resp'.status = 200)
                  => req'.id \notin DOMAIN records']_vars

\* A non-admin's update of another user's record was refused.
C3_Witness ==
    /\ req.route = "update"
    /\ OwnedModelRequest(req)
    /\ resp.reason = "not_owner"
    /\ req.id \in DOMAIN records
    /\ records[req.id].ownerId \in Users \ {req.userId}

\* C4: on a model that declares an ownerField, a single-record read by a
\* non-admin actor never returns a record owned by someone else.
C4_GetOnlyOwn ==
    (req.route = "get" /\ req.auth = "valid" /\ req.role # "Admin"
     /\ modelFound(req.modelName) /\ models[req.modelName].ownerField = "ownerId")
        => \A d \in resp.data : d.ownerId = req.userId

\* C5: an authenticated Admin is allowed every action on every model name
\* (no rbac map, an rbac map granting Admin less, no stored definition, records
\* of other users): the handler runs, the only failure is a missing record,
\* and a collection read returns every record of the model.
C5_AdminBypass ==
    [][(req'.auth = "valid" /\ req'.role = "Admin" /\ req'.route # "")
        => /\ resp'.handler
           /\ resp'.status \in {200, 201, 404}
           /\ (resp'.status = 404)
                  <=> (req'.route \in {"get", "update", "delete"}
                       /\ ~findFirst(req'.id, req'.modelName))
           /\ req'.route = "list"
                  => resp'.data = {parseRecord(i) : i \in findMany(req'.modelName)}
           /\ (req'.route \in {"get", "update", "delete"} /\ resp'.status = 200)
                  => \E d \in resp'.data : d.id = req'.id]_vars

\* Admin deleted a record of another user under a model name with no stored
\* definition.
C5_Witness ==
    /\ req.auth = "valid"
    /\ req.role = "Admin"
    /\ req.route = "delete"
    /\ ~modelFound(req.modelName)
    /\ resp.status = 200
    /\ \E d \in resp.data : d.ownerId \in Users \ {req.userId}

C6_HasPermissionAsStated ==
    rbacOut.done
        => (rbacOut.value <=> Granted(rbacIn.rbac, rbacIn.role, rbacIn.permission))

\* C6 amended: for P among create, read, update and delete, hasPermission is
\* true iff rbac is defined, has an entry for role and the entry contains P or
\* `all`; for P = `all` it is false; it is false whenever rbac is undefined or
\* has no entry for role.
C6_HasPermission ==
    rbacOut.done
        => /\ rbacOut.value <=> /\ rbacIn.permission \in CrudPermissions
                                /\ Granted(rbacIn.rbac, rbacIn.role, rbacIn.permission)
           /\ (~rbacIn.rbac.defined \/ rbacIn.role \notin DOMAIN rbacIn.rbac.rules)
                  => ~rbacOut.value

\* A permission the entry does not list was resolved through `all`.
C6_Witness ==
    /\ rbacOut.done
    /\ rbacOut.value
    /\ rbacIn.permission = "delete"
    /\ rbacIn.rbac.defined
    /\ rbacIn.role \in DOMAIN rbacIn.rbac.rules
    /\ ~includes(rbacIn.rbac.rules[rbacIn.role], "delete")
    /\ includes(rbacIn.rbac.rules[rbacIn.role], "all")

(***************************************************************************)
(* Properties of the version ledger.                                       *)
(***************************************************************************)
\* The version numbers given to the saves of one model name, in commit order.
AssignedTo(name) == SelectSeq(assigned, LAMBDA e : e[1] = name)

\* C8: saves of one model name whose steps interleave are each given a
\* distinct version number, and the numbers given are gap-free.
C8_ConcurrentSavesDistinct ==
    \A n \in ModelNames :
        /\ \A i, j \in DOMAIN AssignedTo(n) :
               AssignedTo(n)[i][2] = AssignedTo(n)[j][2] => i = j
        /\ {AssignedTo(n)[i][2] : i \in DOMAIN AssignedTo(n)} = 1..Len(AssignedTo(n))

\* C9: N sequential saves of one model name are given the versions 1..N in
\* order, whatever saves of other names come between them, and the ledger
\* holds exactly those N snapshots of the name.
C9_SequentialNumbering ==
    \A n \in ModelNames :
        /\ \A i \in DOMAIN AssignedTo(n) : AssignedTo(n)[i][2] = i
        /\ modelVersions(n) = 1..Len(AssignedTo(n))

\* Two saves of Employee with a save of Product between them.
C9_Witness ==
    /\ NoWorkerBusy
    /\ Len(assigned) = 3
    /\ assigned[1] = <<"Employee", 1>>
    /\ assigned[2] = <<"Product", 1>>
    /\ assigned[3] = <<"Employee", 2>>

\* C10: a snapshot recorded for (modelName, version) is never modified or
\* removed by a later step and stays retrievable with its content.
C10_SnapshotsImmutable ==
    [][\A k \in DOMAIN versions :
          /\ k \in DOMAIN versions'
          /\ versions'[k] = versions[k]]_vars

(***************************************************************************)
(* Denials of the CRUD router.                                             *)
(***************************************************************************)
\* C11: a request of an authenticated non-admin actor that names a model with
\* no stored definition is answered model_not_found (404), for every role and
\* verb, and never insufficient_permission.
C11_ModelNotFoundFirst ==
    (req.route # "" /\ req.auth = "valid" /\ req.role # "Admin"
     /\ req.modelName \notin DOMAIN models)
        => /\ resp.status = 404
           /\ resp.reason = "model_not_found"
           /\ ~resp.handler

\* A Viewer's delete on a model name with no stored definition was answered
\* model_not_found.
C11_Witness ==
    /\ req.route = "delete"
    /\ req.role = "Viewer"
    /\ req.modelName \notin DOMAIN models
    /\ resp.reason = "model_not_found"

\* C12: a request without a token, or with a token that fails verification,
\* is answered unauthenticated (401) for every verb and model name; the reply
\* does not depend on the model store and the route handler does not run.
C12_UnauthenticatedFirst ==
    (req.route # "" /\ req.auth \in {"none", "invalid"})
        => resp = Denied(401, "unauthenticated")

\* A create with a token that fails verification, on a model name with no
\* stored definition, was answered unauthenticated.
C12_Witness ==
    /\ req.route = "create"
    /\ req.auth = "invalid"
    /\ req.modelName \notin DOMAIN models
    /\ resp.status = 401

\* The actor of r passed permission resolution: Admin, or a role granted the
\* route's permission on a stored model.
PassedPermission(r) ==
    /\ r.auth = "valid"
    /\ \/ r.role = "Admin"
       \/ /\ modelFound(r.modelName)
          /\ Granted(models[r.modelName].rbac, r.role, RoutePermission(r.route))

\* The Record table holds a row with this id for this model.
RecordExists(id, modelName) ==
    id \in DOMAIN records /\ records[id].modelName = modelName

\* C13: an update or delete of a record id that does not exist for the model,
\* by an actor who passed permission resolution, is answered not_found (404),
\* never not_owner (403), and changes no record.
C13_MissingRecord ==
    [][(req'.route \in {"update", "delete"} /\ PassedPermission(req')
        /\ ~RecordExists(req'.id, req'.modelName))
        => /\ resp'.status = 404
           /\ resp'.reason = "not_found"
           /\ records' = records]_vars

\* A non-admin's update named, under an owned model, the id of another user's
\* record of a different model, and was answered not_found.
C13_Witness ==
    /\ req.route = "update"
    /\ OwnedModelRequest(req)
    /\ req.id \in DOMAIN records
    /\ records[req.id].modelName # req.modelName
    /\ records[req.id].ownerId \in Users \ {req.userId}
    /\ resp.reason = "not_found"

\* The reason codes of a denial.
DenialReasons ==
    {"unauthenticated", "model_not_found", "insufficient_permission", "invalid_action",
     "not_owner", "not_found"}

\* C14: a request that ends in a denial leaves the Record table, the model
\* store and the version ledger unchanged and pushes nothing onto the audit log.
C14_DenialsChangeNothing ==
    [][(req'.route # "" /\ resp'.reason \in DenialReasons)
        => /\ records' = records
           /\ nextId' = nextId
           /\ models' = models
           /\ versions' = versions
           /\ logged' = NoEntry]_vars

\* A delete of another user's record was refused and the record is still
\* stored.
C14_Witness ==
    /\ req.route = "delete"
    /\ resp.reason = "not_owner"
    /\ req.id \in DOMAIN records
    /\ logged = NoEntry

\* C15: when the model-definition lookup fails for a reason other than absence
\* (the file is stored but does not parse), the request of a non-admin actor is
\* denied with the reason lookup_failed, not model_not_found or not_found.
C15_LookupFailed ==
    (req.route # "" /\ req.auth = "valid" /\ req.role # "Admin"
     /\ req.modelName \in DOMAIN models /\ models[req.modelName] = Unparseable)
        => /\ resp.reason = "lookup_failed"
           /\ ~resp.handler

(***************************************************************************)
(* Properties of the model store and the validator.                        *)
(***************************************************************************)
\* Every definition in the model store and in the version ledger passes
\* validation.
StoredDefinitionsValid ==
    /\ \A n \in DOMAIN models : validateModelDefinition(models[n])
    /\ \A k \in DOMAIN versions : validateModelDefinition(versions[k])

\* C16: every definition in the model store and in the version ledger passed
\* validation: the stores start valid, every model file and version snapshot a
\* step writes passes validation, and a save whose candidate fails validation
\* (400) writes neither a model file nor a version snapshot.
C16_StoredDefinitionsValid ==
    /\ StoredDefinitionsValid
    /\ [][/\ \A n \in DOMAIN models' :
                 (n \notin DOMAIN models \/ models'[n] # models[n])
                     => validateModelDefinition(models'[n])
          /\ \A k \in DOMAIN versions' :
                 (k \notin DOMAIN versions \/ versions'[k] # versions[k])
                     => validateModelDefinition(versions'[k])
          /\ \A p \in Savers :
                 (saves[p].pc = "idle" /\ saves'[p] # saves[p] /\ saves'[p].status = 400)
                     => /\ models' = models
                        /\ versions' = versions]_vars

\* A save was refused with 400 while the stores hold a saved definition.
C16_Witness ==
    /\ \E p \in Savers : saves[p].status = 400
    /\ DOMAIN models # {}
    /\ DOMAIN versions # {}

\* The errors the rules broken by x call for: name format, empty fields,
\* invalid field name or type, duplicate field names, relation/type mismatch,
\* ownerField not among the fields, empty permission set.
ViolatedRules(x) ==
    (IF x.name \notin {"Employee", "Product"}
     THEN {Issue(<<"name">>, "Model name must be PascalCase")} ELSE {})
    \cup (IF x.fields = <<>>
          THEN {Issue(<<"fields">>, "At least one field is required")} ELSE {})
    \cup {Issue(<<"fields", Idx(i), "name">>, "Field name must be a valid identifier") :
              i \in {j \in DOMAIN x.fields : x.fields[j].name = "1x"}}
    \cup {Issue(<<"fields", Idx(i), "type">>, "Invalid enum value") :
              i \in {j \in DOMAIN x.fields : x.fields[j].type = "text"}}
    \cup (IF \E i, j \in DOMAIN x.fields : i < j /\ x.fields[i].name = x.fields[j].name
          THEN {Issue(<<"fields">>, "Field names must be unique")} ELSE {})
    \cup {Issue(<<"fields", Idx(i)>>,
                "Relation type fields must have relation config, and vice versa") :
              i \in {j \in DOMAIN x.fields :
                        (x.fields[j].type = "relation") # (x.fields[j].relation # {})}}
    \cup (IF x.ownerField # {} /\ \A i \in DOMAIN x.fields : {x.fields[i].name} # x.ownerField
          THEN {Issue(<<>>, "ownerField must reference an existing field")} ELSE {})
    \cup (IF x.rbac.defined
          THEN {Issue(<<"rbac", ro>>, "At least one permission is required") :
                    ro \in {r \in DOMAIN x.rbac.rules : x.rbac.rules[r] = <<>>}}
          ELSE {})

\* C17: validate reports every rule a rejected candidate breaks, each with
\* the path of the offending value; none is omitted because another was found.
C17_AllViolationsReported ==
    result.done => ViolatedRules(candidate) \subseteq result.errors

\* C18: on success the returned data has required and unique false on every
\* field that omitted them, and timestamps true when the candidate omitted it.
C18_DefaultsApplied ==
    (result.done /\ result.success)
        => /\ \A i \in DOMAIN candidate.fields :
                  /\ candidate.fields[i].required = {}
                         => result.data.fields[i].required = {FALSE}
                  /\ candidate.fields[i].unique = {}
                         => result.data.fields[i].unique = {FALSE}
           /\ candidate.timestamps = {} => result.data.timestamps = {TRUE}

\* C19: validating the data returned for an accepted candidate succeeds and
\* returns the same data: validate(validate(x).data) equals validate(x).
C19_ValidateIdempotent ==
    again.done => again = result

\* The data validated again differs from the candidate it came from: an
\* unknown key was stripped and a default was filled in.
C19_Witness ==
    /\ again.done
    /\ again.success
    /\ candidate.version # {}
    /\ result.data.version = {}
    /\ \E i \in DOMAIN candidate.fields :
           candidate.fields[i].required # result.data.fields[i].required

\* C20: validate rejects every candidate whose ownerField is given, whatever
\* string it is, and equals the name of no field.
C20_OwnerFieldChecked ==
    (result.done /\ candidate.ownerField # {}
     /\ \A i \in DOMAIN candidate.fields : {candidate.fields[i].name} # candidate.ownerField)
        => ~result.success

\* Two entries of the candidate's fields have the same name.
SharedFieldName(x) ==
    \E i, j \in DOMAIN x.fields : i < j /\ x.fields[i].name = x.fields[j].name

\* C21: validate rejects every candidate in which two entries of fields have
\* the same name, and reports a duplicate-name error for it.
C21_DuplicateNamesRejected ==
    (result.done /\ SharedFieldName(candidate))
        => /\ ~result.success
           /\ \E e \in result.errors : e.message = "Field names must be unique"

C23_DuplicateModelNamesRejected ==
    (batchResult.done
     /\ \E i, j \in DOMAIN batch : i < j /\ batch[i].name = batch[j].name)
        => ~batchResult.success

\* The relation fields of the batch, as <<model index, field>>, whose target
\* is the name of no model of the batch.
AbsentTargets ==
    {p \in UNION {{<<i, batch[i].fields[k]>> : k \in DOMAIN batch[i].fields} :
                      i \in DOMAIN batch} :
        /\ p[2].type = "relation"
        /\ \A j \in DOMAIN batch : {[model |-> batch[j].name, type |-> "one-to-one"]} # p[2].relation}

\* C24: for a batch of individually valid models, validateModelDefinitions
\* succeeds iff every relation target is the name of a model of the batch; on
\* failure it reports exactly one error for each relation field with an absent
\* target, across all models; a target need not declare a field in return.
C24_RelationTargets ==
    (batchResult.done /\ \A i \in DOMAIN batch : validationResult(batch[i], zod).success)
        => /\ batchResult.success <=> AbsentTargets = {}
           /\ Cardinality(batchResult.errors) = Cardinality(AbsentTargets)
           /\ \A p \in AbsentTargets :
                  \E e \in batchResult.errors :
                      e.path = <<ModelTag(p[1]), "fields", p[2].name, "relation", "model">>

\* A batch of two valid models with an absent target in each was rejected.
C24_Witness ==
    /\ batchResult.done
    /\ ~batchResult.success
    /\ Len(batch) = 2
    /\ \A i \in DOMAIN batch : batch[i].name \in ModelNames
    /\ \E p \in AbsentTargets : p[1] = 1
    /\ \E p \in AbsentTargets : p[1] = 2

\* C25: expandPermissions(grants) is the full set {create, read, update,
\* delete} whenever grants contains `all`, whatever else it contains, and is
\* grants unchanged otherwise; its result never contains `all`.
C25_ExpandPermissions ==
    expandOut.done
        => LET grants == rbacIn.rbac.rules[rbacIn.role]
               expanded == {expandOut.value[i] : i \in DOMAIN expandOut.value}
           IN  /\ (\E i \in DOMAIN grants : grants[i] = "all")
                      => expanded = {"create", "read", "update", "delete"}
               /\ (\A i \in DOMAIN grants : grants[i] # "all")
                      => expandOut.value = grants
               /\ "all" \notin expanded

\* Grants holding `all` next to another entry were expanded to the full set.
C25_Witness ==
    /\ expandOut.done
    /\ Len(rbacIn.rbac.rules[rbacIn.role]) = 2
    /\ rbacIn.rbac.rules[rbacIn.role][1] = "read"
    /\ rbacIn.rbac.rules[rbacIn.role][2] = "all"
    /\ Len(expandOut.value) = 4

\* C30: the UI's auth.hasPermission reports an action as allowed iff the
\* server's permission step (Admin bypass, else hasPermission on the model's
\* rbac) allows it, for every rbac map, absent or not, role and permission.
C30_UiAgreesWithServer ==
    uiOut.done
        => (uiOut.value <=> serverAllows(rbacIn.rbac, rbacIn.role, rbacIn.permission))

\* C26: a successful update by a non-admin actor on a model that declares an
\* ownerField leaves the owner of every record as it was, whatever the
\* request body contains.
C26_UpdateKeepsOwner ==
    [][(req'.route = "update" /\ OwnedModelRequest(req') /\ resp'.status = 200)
        => /\ DOMAIN records' = DOMAIN records
           /\ \A i \in DOMAIN records : records'[i].ownerId = records[i].ownerId]_vars

\* A non-admin's update that submitted another user as owner succeeded and
\* the record still belongs to the actor.
C26_Witness ==
    /\ req.route = "update"
    /\ OwnedModelRequest(req)
    /\ resp.status = 200
    /\ req.body.ownerId \in Users \ {req.userId}
    /\ records[req.id].ownerId = req.userId

\* C29: for an authenticated non-admin actor whose role lacks the permission
\* of the verb, the response to a read, update or delete is the same
\* insufficient_permission reply whether or not the target record exists and
\* whoever owns it: it is a function of the request's role, verb and model
\* only, and the Record table is not touched.
C29_DenialIndependentOfRecords ==
    [][(req'.route \in {"list", "get", "update", "delete"}
        /\ req'.auth = "valid" /\ req'.role # "Admin"
        /\ modelFound(req'.modelName)
        /\ ~Granted(models[req'.modelName].rbac, req'.role, RoutePermission(req'.route)))
        => /\ resp' = Reply(403, "insufficient_permission", RoutePermission(req'.route),
                            req'.role, req'.modelName, FALSE, {})
           /\ records' = records]_vars

\* A Viewer's update of an existing record of another user and a Viewer's
\* update of a missing record id are both states of the check: here the
\* record exists, belongs to someone else, and the reply names only the
\* missing permission.
C29_Witness ==
    /\ req.route = "update"
    /\ req.role = "Viewer"
    /\ resp.reason = "insufficient_permission"
    /\ req.id \in DOMAIN records
    /\ records[req.id].modelName = req.modelName
    /\ records[req.id].ownerId \in Users \ {req.userId}

\* C27: once no save request is in progress, the model store's entry for a
\* name that has snapshots in the ledger carries the highest version number
\* recorded for that name and equals that highest snapshot.
C27_StoreMatchesLatestSnapshot ==
    NoWorkerBusy =>
        \A n \in DOMAIN models :
            modelVersions(n) # {} =>
                /\ models[n].version = SetMax(modelVersions(n))
                /\ models[n] = versions[<<n, SetMax(modelVersions(n))>>]

\* C28: when two update requests on one record set different fields and both
\* report success, the stored record holds the value each of them wrote.
C28_NoLostUpdate ==
    \A p, q \in Putters :
        (/\ p # q
         /\ puts[p].pc = "done" /\ puts[p].status = 200
         /\ puts[q].pc = "done" /\ puts[q].status = 200
         /\ DOMAIN puts[p].body \cap DOMAIN puts[q].body = {}
         /\ rowData.exists)
        => \A f \in DOMAIN puts[p].body : rowData.data[f] = puts[p].body[f]

====
